---- MODULE Spec2Model ----
(***************************************************************************)
(* SQL_Sketchbook: the interactive SQL learning tool of src/learner.py     *)
(* (class SQLLearner and main), with the part of Python's sqlite3 module   *)
(* that the tool drives: cursor.execute, cursor.rowcount, fetchall,        *)
(* connection.commit and connection.close under the default (legacy)       *)
(* transaction control.                                                    *)
(*                                                                         *)
(* A Python str is a tuple of one-character strings, so that strip, upper, *)
(* lower, startswith, endswith and + are computed, not assumed.            *)
(***************************************************************************)
EXTENDS Integers, Sequences, FiniteSets, TLC

(* ---------------------------------------------------------------------- *)
(* Bounds                                                                  *)
(* ---------------------------------------------------------------------- *)

\* Lines without a terminating ';' that interactive_mode may accumulate
\* before a terminated line, 'exit', an interrupt or end-of-input follows.
MaxBufLines == 2

(* ---------------------------------------------------------------------- *)
(* Python str operations                                                   *)
(* ---------------------------------------------------------------------- *)

LowerAlpha == <<"a","b","c","d","e","f","g","h","i","j","k","l","m","n","o","p","q","r","s","t","u","v","w","x","y","z">>
UpperAlpha == <<"A","B","C","D","E","F","G","H","I","J","K","L","M","N","O","P","Q","R","S","T","U","V","W","X","Y","Z">>
Digits == <<"0","1","2","3","4","5","6","7","8","9">>

\* The code point U+DC80: what input() returns for the byte 0x80 when
\* stdin decodes with errors='surrogateescape'.
Surrogate == "U+DC80"

IsSpace(c) == c \in {" ", "\n", "\t"}

IndexIn(alphabet, c) == CHOOSE i \in 1..Len(alphabet) : alphabet[i] = c

upperChar(c) ==
    IF \E i \in 1..Len(LowerAlpha) : LowerAlpha[i] = c
    THEN UpperAlpha[IndexIn(LowerAlpha, c)] ELSE c

lowerChar(c) ==
    IF \E i \in 1..Len(UpperAlpha) : UpperAlpha[i] = c
    THEN LowerAlpha[IndexIn(UpperAlpha, c)] ELSE c

upper(s) == [i \in 1..Len(s) |-> upperChar(s[i])]

lower(s) == [i \in 1..Len(s) |-> lowerChar(s[i])]

SetMin(S) == CHOOSE m \in S : \A n \in S : m <= n

SetMax(S) == CHOOSE m \in S : \A n \in S : n <= m

NonSpace(s) == {i \in 1..Len(s) : ~IsSpace(s[i])}

strip(s) ==
    IF NonSpace(s) = {} THEN <<>>
    ELSE SubSeq(s, SetMin(NonSpace(s)), SetMax(NonSpace(s)))

startswith(s, prefix) ==
    /\ Len(prefix) <= Len(s)
    /\ SubSeq(s, 1, Len(prefix)) = prefix

endswith(s, suffix) ==
    /\ Len(suffix) <= Len(s)
    /\ SubSeq(s, Len(s) - Len(suffix) + 1, Len(s)) = suffix

\* int(s): the value of an optional sign followed by decimal digits, with
\* surrounding whitespace ignored; ValueError for anything else.
RECURSIVE DigitsValue(_)
DigitsValue(s) ==
    IF s = <<>> THEN 0
    ELSE 10 * DigitsValue(SubSeq(s, 1, Len(s) - 1)) + (IndexIn(Digits, s[Len(s)]) - 1)

IsDigits(s) ==
    /\ s # <<>>
    /\ \A i \in 1..Len(s) : \E d \in 1..Len(Digits) : Digits[d] = s[i]

int(s) ==
    LET t == strip(s) IN
    IF IsDigits(t) THEN [ValueError |-> FALSE, value |-> DigitsValue(t)]
    ELSE IF Len(t) > 1 /\ t[1] = "-" /\ IsDigits(Tail(t))
    THEN [ValueError |-> FALSE, value |-> 0 - DigitsValue(Tail(t))]
    ELSE IF Len(t) > 1 /\ t[1] = "+" /\ IsDigits(Tail(t))
    THEN [ValueError |-> FALSE, value |-> DigitsValue(Tail(t))]
    ELSE [ValueError |-> TRUE, value |-> 0]

(* ---------------------------------------------------------------------- *)
(* Statement texts of the program                                          *)
(* ---------------------------------------------------------------------- *)

\* show_tables' statement.
ShowTablesQuery == <<"S","E","L","E","C","T"," ","n","a","m","e"," ","F","R","O","M"," ","s","q","l","i","t","e","_","m","a","s","t","e","r"," ","W","H","E","R","E"," ","t","y","p","e","=","'","t","a","b","l","e","'",";">>

\* show_schema's statement for a table name.
SchemaQuery(table_name) == <<"P","R","A","G","M","A"," ","t","a","b","l","e","_","i","n","f","o","(">> \o table_name \o <<")",";">>

\* The statement of each lesson method as it is passed to execute_query:
\* lesson 1 is one line; lessons 2..10 are triple-quoted, so they start with
\* a newline and eight spaces and end with a newline and eight spaces.  The
\* select lists and clauses are shortened; the leading keyword, the tables
\* and the shape of the statement are the lesson's.
LessonQuery(n) ==
    CASE n = 1 -> <<"S","E","L","E","C","T"," ","*"," ","F","R","O","M"," ","i","n","v","e","n","t","o","r","y"," ","L","I","M","I","T"," ","5",";">>
      [] n = 2 -> <<"\n"," "," "," "," "," "," "," "," ","S","E","L","E","C","T"," ","i","t","e","m","_","n","a","m","e"," ","F","R","O","M"," ","i","n","v","e","n","t","o","r","y"," ","W","H","E","R","E"," ","q","u","a","n","t","i","t","y","_","i","n","_","s","t","o","c","k"," ","<"," ","r","e","o","r","d","e","r","_","l","e","v","e","l",";","\n"," "," "," "," "," "," "," "," ">>
      [] n = 3 -> <<"\n"," "," "," "," "," "," "," "," ","S","E","L","E","C","T"," ","i","t","e","m","_","n","a","m","e"," ","F","R","O","M"," ","i","n","v","e","n","t","o","r","y"," ","O","R","D","E","R"," ","B","Y"," ","s","a","l","e","_","p","r","i","c","e"," ","D","E","S","C"," ","L","I","M","I","T"," ","5",";","\n"," "," "," "," "," "," "," "," ">>
      [] n = 4 -> <<"\n"," "," "," "," "," "," "," "," ","S","E","L","E","C","T"," ","C","O","U","N","T","(","*",")"," ","F","R","O","M"," ","i","n","v","e","n","t","o","r","y",";","\n"," "," "," "," "," "," "," "," ">>
      [] n = 5 -> <<"\n"," "," "," "," "," "," "," "," ","S","E","L","E","C","T"," ","c","a","t","e","g","o","r","y",","," ","C","O","U","N","T","(","*",")"," ","F","R","O","M"," ","i","n","v","e","n","t","o","r","y"," ","G","R","O","U","P"," ","B","Y"," ","c","a","t","e","g","o","r","y",";","\n"," "," "," "," "," "," "," "," ">>
      [] n = 6 -> <<"\n"," "," "," "," "," "," "," "," ","S","E","L","E","C","T"," ","i",".","i","t","e","m","_","n","a","m","e"," ","F","R","O","M"," ","o","r","d","e","r","s"," ","o"," ","J","O","I","N"," ","i","n","v","e","n","t","o","r","y"," ","i"," ","O","N"," ","o",".","i","t","e","m","_","i","d"," ","="," ","i",".","i","t","e","m","_","i","d"," ","L","I","M","I","T"," ","5",";","\n"," "," "," "," "," "," "," "," ">>
      [] n = 7 -> <<"\n"," "," "," "," "," "," "," "," ","S","E","L","E","C","T"," ","i","t","e","m","_","n","a","m","e"," ","F","R","O","M"," ","i","n","v","e","n","t","o","r","y"," ","W","H","E","R","E"," ","i","t","e","m","_","i","d"," ","N","O","T"," ","I","N"," ","(","S","E","L","E","C","T"," ","i","t","e","m","_","i","d"," ","F","R","O","M"," ","o","r","d","e","r","s",")",";","\n"," "," "," "," "," "," "," "," ">>
      [] n = 8 -> <<"\n"," "," "," "," "," "," "," "," ","S","E","L","E","C","T"," ","C","A","S","E"," ","W","H","E","N"," ","s","a","l","e","_","p","r","i","c","e"," ","<"," ","1","0"," ","T","H","E","N"," ","'","B","u","d","g","e","t","'"," ","E","L","S","E"," ","'","P","r","e","m","i","u","m","'"," ","E","N","D"," ","F","R","O","M"," ","i","n","v","e","n","t","o","r","y"," ","L","I","M","I","T"," ","1","0",";","\n"," "," "," "," "," "," "," "," ">>
      [] n = 9 -> <<"\n"," "," "," "," "," "," "," "," ","S","E","L","E","C","T"," ","R","A","N","K","(",")"," ","O","V","E","R"," ","(","P","A","R","T","I","T","I","O","N"," ","B","Y"," ","c","a","t","e","g","o","r","y"," ","O","R","D","E","R"," ","B","Y"," ","s","a","l","e","_","p","r","i","c","e",")"," ","F","R","O","M"," ","i","n","v","e","n","t","o","r","y",";","\n"," "," "," "," "," "," "," "," ">>
      [] n = 10 -> <<"\n"," "," "," "," "," "," "," "," ","W","I","T","H"," ","p","r","o","f","i","t","a","b","l","e","_","i","t","e","m","s"," ","A","S"," ","(","S","E","L","E","C","T"," ","i","t","e","m","_","i","d"," ","F","R","O","M"," ","i","n","v","e","n","t","o","r","y",")"," ","S","E","L","E","C","T"," ","p","i",".","i","t","e","m","_","i","d"," ","F","R","O","M"," ","p","r","o","f","i","t","a","b","l","e","_","i","t","e","m","s"," ","p","i",";","\n"," "," "," "," "," "," "," "," ">>

\* The keys of the lessons dictionary of run_lesson.
LessonIds == 1..10

(* ---------------------------------------------------------------------- *)
(* sqlite3: the database behind the connection                             *)
(*                                                                         *)
(* The database holds the table inventory (primary key item_id) and an     *)
(* empty table orders.  db.rows is the set of item_id values the           *)
(* connection sees, db.committed the set that is durable, db.inTx whether  *)
(* the connection has a transaction open (Connection.in_transaction).      *)
(* ---------------------------------------------------------------------- *)

\* The item_id values the statements of the model insert.
Keys == {1, 2}

\* A statement as SQLite reads it: keywords and identifiers without case,
\* runs of whitespace as one space, no surrounding whitespace.
Collapse(s) ==
    LET marked == [i \in 1..Len(s) |->
                     [c |-> IF IsSpace(s[i]) THEN " " ELSE s[i],
                      drop |-> IsSpace(s[i]) /\ i < Len(s) /\ IsSpace(s[i + 1])]]
        Keep(m) == ~m.drop
        kept == SelectSeq(marked, Keep)
    IN [i \in 1..Len(kept) |-> kept[i].c]

Norm(s) == Collapse(upper(strip(s)))

\* Statements with no SQL in them: prepared to nothing, executed as a no-op.
EmptyStatements == {<<>>, <<";">>}

\* Reads that return one row whatever the table holds.
ReadsOne ==
    {<<"S","E","L","E","C","T"," ","1",";">>, <<"W","I","T","H"," ","X"," ","A","S"," ","(","S","E","L","E","C","T"," ","1",")"," ","S","E","L","E","C","T"," ","*"," ","F","R","O","M"," ","X",";">>,
     Norm(LessonQuery(4))}

\* Reads that return one row per row of inventory.
ReadsTable ==
    {<<"S","E","L","E","C","T"," ","*"," ","F","R","O","M"," ","I","N","V","E","N","T","O","R","Y",";">>} \cup
    {Norm(LessonQuery(n)) : n \in {1, 2, 3, 5, 7, 8, 9, 10}}

\* Reads that return no row: the join with the empty table orders, and
\* table_info of a table that does not exist.
ReadsNone == {Norm(LessonQuery(6)), Norm(SchemaQuery(<<"n","o","n","e","x","i","s","t","e","n","t">>))}

\* Reads that return one row per table or per column of inventory.
ReadsCatalog == {Norm(ShowTablesQuery), Norm(SchemaQuery(<<"i","n","v","e","n","t","o","r","y">>))}

InsertText(k) ==
    CASE k = 1 -> <<"I","N","S","E","R","T"," ","I","N","T","O"," ","I","N","V","E","N","T","O","R","Y","(","I","T","E","M","_","I","D",")"," ","V","A","L","U","E","S","(","1",")",";">>
      [] k = 2 -> <<"I","N","S","E","R","T"," ","I","N","T","O"," ","I","N","V","E","N","T","O","R","Y","(","I","T","E","M","_","I","D",")"," ","V","A","L","U","E","S","(","2",")",";">>

InsertOrFailText == <<"I","N","S","E","R","T"," ","O","R"," ","F","A","I","L"," ","I","N","T","O"," ","I","N","V","E","N","T","O","R","Y","(","I","T","E","M","_","I","D",")"," ","V","A","L","U","E","S","(","2",")",",","(","1",")",";">>

DeleteText == <<"D","E","L","E","T","E"," ","F","R","O","M"," ","I","N","V","E","N","T","O","R","Y",";">>

DdlText == <<"C","R","E","A","T","E"," ","I","N","D","E","X"," ","I","F"," ","N","O","T"," ","E","X","I","S","T","S"," ","I","X"," ","O","N"," ","I","N","V","E","N","T","O","R","Y","(","I","T","E","M","_","I","D",")",";">>

TwoStatementsText == <<"S","E","L","E","C","T"," ","1",";"," ","S","E","L","E","C","T"," ","1",";">>

\* The exceptions of cursor.execute that derive from sqlite3.Error.
SqliteErrors == {"IntegrityError", "OperationalError", "ProgrammingError"}

\* Legacy transaction control: a BEGIN is issued before an INSERT, UPDATE,
\* DELETE or REPLACE when no transaction is open.
ImplicitBegin(db) == [db EXCEPT !.inTx = TRUE]

Executed(db, rowcount, nrows) ==
    [raised |-> "none", db |-> db, rowcount |-> rowcount, nrows |-> nrows]

Raised(db, exc) ==
    [raised |-> exc, db |-> db, rowcount |-> -1, nrows |-> 0]

\* cursor.execute(query): the exception raised ("none" when it succeeds),
\* the database afterwards, cursor.rowcount (-1 for anything that is not an
\* INSERT, UPDATE, DELETE or REPLACE) and the number of rows fetchall()
\* would return.
cursor_execute(db, query) ==
    LET n == Norm(query)
        tx == ImplicitBegin(db)
    IN
    IF \E i \in 1..Len(query) : query[i] = Surrogate
    THEN Raised(db, "UnicodeEncodeError")
    ELSE IF n \in EmptyStatements THEN Executed(db, -1, 0)
    ELSE IF n \in ReadsOne THEN Executed(db, -1, 1)
    ELSE IF n \in ReadsTable THEN Executed(db, -1, Cardinality(db.rows))
    ELSE IF n \in ReadsNone THEN Executed(db, -1, 0)
    ELSE IF n \in ReadsCatalog THEN Executed(db, -1, 2)
    ELSE IF \E k \in Keys : n = InsertText(k)
    THEN LET k == CHOOSE j \in Keys : n = InsertText(j) IN
         IF k \in db.rows THEN Raised(tx, "IntegrityError")
         ELSE Executed([tx EXCEPT !.rows = @ \cup {k}], 1, 0)
    ELSE IF n = InsertOrFailText
    THEN \* OR FAIL: the rows inserted before the conflict stay inserted
         IF 2 \in db.rows THEN Raised(tx, "IntegrityError")
         ELSE IF 1 \in db.rows
              THEN Raised([tx EXCEPT !.rows = @ \cup {2}], "IntegrityError")
              ELSE Executed([tx EXCEPT !.rows = @ \cup {1, 2}], 2, 0)
    ELSE IF n = DeleteText
    THEN Executed([tx EXCEPT !.rows = {}], Cardinality(db.rows), 0)
    ELSE IF n = DdlText THEN Executed(db, -1, 0)
    ELSE IF n = TwoStatementsText THEN Raised(db, "ProgrammingError")
    ELSE Raised(db, "OperationalError")

\* connection.commit()
commit(db) ==
    IF db.inTx THEN [db EXCEPT !.committed = db.rows, !.inTx = FALSE] ELSE db

\* connection.close(): what was not committed is rolled back.
conn_close(db) == [db EXCEPT !.rows = db.committed, !.inTx = FALSE]

(* ---------------------------------------------------------------------- *)
(* SQLLearner.execute_query                                                *)
(* ---------------------------------------------------------------------- *)

\* query.strip().upper().startswith('SELECT')
IsSelect(query) == startswith(upper(strip(query)), <<"S","E","L","E","C","T">>)

\* except sqlite3.Error
Caught(exc) == exc \in SqliteErrors

\* What execute_query showed: kind is "rows" (header, rows and a row
\* count), "norows" ("No results found."), "affected" ("Query executed. n
\* row(s) affected."), "error" ("SQL Error: ...") or "nothing".
Shown(kind, n) == [kind |-> kind, n |-> n]

\* execute_query(query) on the database db: the database afterwards, what
\* was shown, the exception that left execute_query ("none" when it
\* returned) and whether conn.commit() was called.
execute_query(db, query) ==
    LET r == cursor_execute(db, query) IN
    IF r.raised # "none"
    THEN IF Caught(r.raised)
         THEN [db |-> r.db, out |-> Shown("error", 0), raised |-> "none",
               commit |-> FALSE]
         ELSE [db |-> r.db, out |-> Shown("nothing", 0), raised |-> r.raised,
               commit |-> FALSE]
    ELSE IF IsSelect(query)
    THEN [db |-> r.db,
          out |-> IF r.nrows = 0 THEN Shown("norows", 0) ELSE Shown("rows", r.nrows),
          raised |-> "none", commit |-> FALSE]
    ELSE [db |-> commit(r.db), out |-> Shown("affected", r.rowcount),
          raised |-> "none", commit |-> TRUE]

(* ---------------------------------------------------------------------- *)
(* Console input                                                           *)
(* ---------------------------------------------------------------------- *)

\* Answers to "Enter choice (1-7): ".
MenuInputs ==
    {<<"1">>, <<"2">>, <<"3">>, <<"4">>, <<"5">>, <<"6">>, <<"7">>, <<" ","7"," ">>, <<"8">>, <<"0">>,
     <<"x">>, <<>>}

\* Answers to "Enter table name: ".
TableInputs == {<<"i","n","v","e","n","t","o","r","y">>, <<" ","n","o","n","e","x","i","s","t","e","n","t"," ">>}

\* Answers to "Enter lesson number (1-10): ".
LessonInputs ==
    {<<"1">>, <<"2">>, <<"3">>, <<"4">>, <<"5">>, <<"6">>, <<"7">>, <<"8">>, <<"9">>, <<"1","0">>,
     <<"0">>, <<"1","1">>, <<"-","1">>, <<"+","3">>, <<"a","b","c">>, <<"1",".","5">>, <<>>}

\* Lines that end a statement (their last non-blank character is ';').
TerminatedLines ==
    {<<"S","E","L","E","C","T"," ","1",";">>, <<"1",";">>, <<";">>, <<"s","e","l","e","c","t"," ","*"," ","f","r","o","m"," ","i","n","v","e","n","t","o","r","y",";"," ">>,
     <<"I","N","S","E","R","T"," ","I","N","T","O"," ","i","n","v","e","n","t","o","r","y","(","i","t","e","m","_","i","d",")"," ","V","A","L","U","E","S","(","1",")",";">>,
     <<"I","N","S","E","R","T"," ","I","N","T","O"," ","i","n","v","e","n","t","o","r","y","(","i","t","e","m","_","i","d",")"," ","V","A","L","U","E","S","(","2",")",";">>,
     <<"I","N","S","E","R","T"," ","O","R"," ","F","A","I","L"," ","I","N","T","O"," ","i","n","v","e","n","t","o","r","y","(","i","t","e","m","_","i","d",")"," ","V","A","L","U","E","S","(","2",")",",","(","1",")",";">>,
     <<"D","E","L","E","T","E"," ","F","R","O","M"," ","i","n","v","e","n","t","o","r","y",";">>,
     <<"C","R","E","A","T","E"," ","I","N","D","E","X"," ","I","F"," ","N","O","T"," ","E","X","I","S","T","S"," ","i","x"," ","O","N"," ","i","n","v","e","n","t","o","r","y","(","i","t","e","m","_","i","d",")",";">>,
     <<"P","R","A","G","M","A"," ","t","a","b","l","e","_","i","n","f","o","(","i","n","v","e","n","t","o","r","y",")",";">>,
     <<"W","I","T","H"," ","x"," ","A","S"," ","(","S","E","L","E","C","T"," ","1",")"," ","S","E","L","E","C","T"," ","*"," ","F","R","O","M"," ","x",";">>,
     <<"S","E","L","E","C","T"," ","1",";"," ","S","E","L","E","C","T"," ","1",";">>,
     <<"S","E","L","E","C","T"," ","'">> \o <<Surrogate>> \o <<"'",";">>}

\* Lines that do not end a statement.
OpenLines == {<<"S","E","L","E","C","T">>, <<>>}

\* Lines that are the exit command.
ExitLines == {<<"e","x","i","t">>, <<" "," ","E","x","i","t"," ">>}

\* Answers to "SQL> " and "...> ".
Lines == TerminatedLines \cup OpenLines \cup ExitLines

(* ---------------------------------------------------------------------- *)
(* src/python/aw_db00.py: the seeding script                               *)
(*                                                                         *)
(* The script is a straight line of statements on one connection to the    *)
(* file mini_aw.sqlite.  A table of the file is [exists, rows]; file is    *)
(* what is durable, work what the connection sees.                         *)
(* ---------------------------------------------------------------------- *)

\* Runs of the script that are started, one after the other.
MaxRuns == 3

\* The tables in the order the script creates and seeds them.
SeedTables == <<"Territory", "Customer", "SalesOrderHeader">>

\* The rows the script inserts into a table, in order.
SeedRows(t) ==
    CASE t = "Territory" ->
           << <<1, "Northwest", "United States">>,
              <<2, "Northeast", "United States">>,
              <<3, "Central", "United States">>,
              <<4, "Canada", "Canada">>,
              <<5, "France", "France">> >>
      [] t = "Customer" ->
           << <<1, "John", "Smith", 4>>,
              <<2, "Marie", "Dubois", 5>>,
              <<3, "Alex", "Johnson", 1>>,
              <<4, "Robert", "King", 4>> >>
      [] t = "SalesOrderHeader" ->
           << <<1001, 1, "2024-01-05", "120.50">>,
              <<1002, 2, "2024-01-01", "89.99">>,
              <<1003, 4, "2024-02-01", "220.00">>,
              <<1004, 2, "2024-03-03", "150.00">> >>

\* A database file without tables.
EmptyFile == [t \in {"Territory", "Customer", "SalesOrderHeader"} |->
                 [exists |-> FALSE, rows |-> {}]]

\* CREATE TABLE IF NOT EXISTS t
CreateIfNotExists(tables, t) ==
    IF tables[t].exists THEN tables
    ELSE [tables EXCEPT ![t] = [exists |-> TRUE, rows |-> {}]]

\* Mutant of SeedWhen: the rows are inserted whatever the table holds.
SeedWhen_always(count) == TRUE

\* if cur.fetchone()[0] == 0
SeedWhen(count) == count = 0

\* INTEGER PRIMARY KEY: the first column of a row is its key.
KeyTaken(rows, row) == \E r \in rows : r[1] = row[1]

\* The script before its first run, on an empty database file.
SeedInitial ==
    [at |-> "idle", t |-> 1, r |-> 1, file |-> EmptyFile, work |-> EmptyFile,
     inTx |-> FALSE, runs |-> 0, ended |-> "never", inserted |-> 0,
     seededAtStart |-> FALSE, raised |-> "none"]

\* Every table of the file exists and holds exactly the script's rows.
Seeded(file) ==
    \A i \in 1..Len(SeedTables) :
        LET t == SeedTables[i] IN
        /\ file[t].exists
        /\ file[t].rows = {SeedRows(t)[j] : j \in 1..Len(SeedRows(t))}

(* ---------------------------------------------------------------------- *)
(* State                                                                   *)
(* ---------------------------------------------------------------------- *)

VARIABLES
    pc,            \* where the process is: "start", the input() it waits at
                   \* ("menu", "table", "lesson", "query", "interactive"),
                   \* or "exited"
    conn,          \* self.conn: "none", "open" or "closed"
    db,            \* the database as the connection sees it
    query_buffer,  \* interactive_mode's query_buffer
    pending,       \* the lines read since query_buffer was last emptied
    last,          \* what the last step did: the input it read, the call of
                   \* execute_query it made (if any) and the state it began in
    exitStatus,    \* the exit status of the process, -1 while it runs
    opens,         \* calls of sqlite3.connect that succeeded
    closes,        \* calls of conn.close()
    seed           \* aw_db00.py: its position (at, t, r), the file, the
                   \* connection's view of it, and what its runs did

learnerVars ==
    <<pc, conn, db, query_buffer, pending, last, exitStatus, opens, closes>>

vars == <<learnerVars, seed>>

\* A step that did not call execute_query.
NoCall(op, input, msg) ==
    [op |-> op, input |-> input, calls |-> 0, query |-> <<>>,
     out |-> Shown("nothing", 0), raised |-> "none", commit |-> FALSE,
     pcWas |-> pc, connWas |-> conn, dbWas |-> db, bufWas |-> query_buffer,
     lines |-> <<>>, msg |-> msg]

\* A step that called execute_query(query) once, with result r.
Call(op, input, query, r, lines) ==
    [op |-> op, input |-> input, calls |-> 1, query |-> query,
     out |-> r.out, raised |-> r.raised, commit |-> r.commit,
     pcWas |-> pc, connWas |-> conn, dbWas |-> db, bufWas |-> query_buffer,
     lines |-> lines, msg |-> ""]

Init ==
    /\ pc = "start"
    /\ conn = "none"
    /\ \E rows \in SUBSET Keys :
          db = [rows |-> rows, committed |-> rows, inTx |-> FALSE]
    /\ query_buffer = <<>>
    /\ pending = <<>>
    /\ last = NoCall("init", <<>>, "")
    /\ exitStatus = -1
    /\ opens = 0
    /\ closes = 0
    /\ seed = SeedInitial

(* ---------------------------------------------------------------------- *)
(* main                                                                    *)
(* ---------------------------------------------------------------------- *)

\* Mutant of ExitStatus: the process always ends with status 1.
ExitStatus_always_failure(exc) == 1

\* The exit status of the process when main ends with the exception exc
\* ("none": main returned): an uncaught exception gives 1, an uncaught
\* KeyboardInterrupt ends the process by SIGINT, which a shell shows as 130.
ExitStatus(exc) ==
    CASE exc = "none" -> 0
      [] exc = "KeyboardInterrupt" -> 130
      [] OTHER -> 1

\* sys.exit(1) when connect() returned False.
ConnectFailedStatus == 1

\* Mutant of finally_close: close() only after main_menu returned.
close_after_return_only(exc) == exc = "none"

\* try: learner.main_menu() finally: learner.close() -- close is called
\* however main_menu ended.
finally_close(exc) == TRUE

\* main_menu ended, by break (exc = "none") or by the exception exc, with the
\* database d: main's finally clause, then the end of the process.
Leave(exc, d) ==
    /\ pc' = "exited"
    /\ exitStatus' = ExitStatus(exc)
    /\ IF finally_close(exc)
       THEN /\ conn' = "closed"
            /\ db' = conn_close(d)
            /\ closes' = closes + 1
       ELSE /\ db' = d
            /\ UNCHANGED <<conn, closes>>
    /\ UNCHANGED opens

\* execute_query returned (to the input() that sets pc to next) or raised.
Continue(r, next) ==
    IF r.raised = "none"
    THEN /\ pc' = next
         /\ db' = r.db
         /\ UNCHANGED <<conn, exitStatus, opens, closes>>
    ELSE Leave(r.raised, r.db)

\* connect() succeeded: main enters main_menu.
ConnectOk ==
    /\ UNCHANGED seed
    /\ pc = "start"
    /\ conn' = "open"
    /\ opens' = opens + 1
    /\ pc' = "menu"
    /\ last' = NoCall("connect", <<>>, "Connected")
    /\ UNCHANGED <<db, query_buffer, pending, exitStatus, closes>>

\* sqlite3.connect raised sqlite3.Error: connect() returned False.
ConnectFail ==
    /\ UNCHANGED seed
    /\ pc = "start"
    /\ pc' = "exited"
    /\ exitStatus' = ConnectFailedStatus
    /\ last' = NoCall("connect", <<>>, "Could not connect to database")
    /\ UNCHANGED <<conn, db, query_buffer, pending, opens, closes>>

(* ---------------------------------------------------------------------- *)
(* SQLLearner.main_menu                                                    *)
(* ---------------------------------------------------------------------- *)

\* Mutant of InLessons: the last lesson is missing from the dictionary.
InLessons_without_last(lesson_num) == lesson_num \in 1..9

\* lesson_num in lessons
InLessons(lesson_num) == lesson_num \in LessonIds

\* choice = input("Enter choice (1-7): ").strip() and the branch taken.
MenuChoice ==
    /\ UNCHANGED seed
    /\ pc = "menu"
    /\ \E line \in MenuInputs :
          LET choice == strip(line) IN
          IF choice = <<"1">>
          THEN \* show_tables()
               LET r == execute_query(db, ShowTablesQuery) IN
               /\ last' = Call("show_tables", line, ShowTablesQuery, r, <<>>)
               /\ Continue(r, "menu")
               /\ UNCHANGED <<query_buffer, pending>>
          ELSE IF choice = <<"7">>
          THEN \* break: main_menu returns to main
               /\ last' = NoCall("exit", line, "Goodbye! Keep practicing SQL!")
               /\ Leave("none", db)
               /\ UNCHANGED <<query_buffer, pending>>
          ELSE /\ UNCHANGED <<conn, db, pending, exitStatus, opens, closes>>
               /\ IF choice = <<"2">>
                  THEN /\ pc' = "table"
                       /\ last' = NoCall("ask_table", line, "")
                       /\ UNCHANGED query_buffer
                  ELSE IF choice = <<"3">>
                  THEN /\ pc' = "menu"
                       /\ last' = NoCall("show_lessons", line, "")
                       /\ UNCHANGED query_buffer
                  ELSE IF choice = <<"4">>
                  THEN /\ pc' = "lesson"
                       /\ last' = NoCall("ask_lesson", line, "")
                       /\ UNCHANGED query_buffer
                  ELSE IF choice = <<"5">>
                  THEN \* interactive_mode(): query_buffer = ""
                       /\ pc' = "interactive"
                       /\ query_buffer' = <<>>
                       /\ last' = NoCall("interactive_mode", line, "")
                  ELSE IF choice = <<"6">>
                  THEN /\ pc' = "query"
                       /\ last' = NoCall("ask_query", line, "")
                       /\ UNCHANGED query_buffer
                  ELSE /\ pc' = "menu"
                       /\ last' = NoCall("invalid_choice", line,
                                         "Invalid choice. Please enter 1-7.")
                       /\ UNCHANGED query_buffer

\* table = input("Enter table name: ").strip(); show_schema(table)
AskTable ==
    /\ UNCHANGED seed
    /\ pc = "table"
    /\ \E line \in TableInputs :
          LET query == SchemaQuery(strip(line))
              r == execute_query(db, query)
          IN /\ last' = Call("show_schema", line, query, r, <<>>)
             /\ Continue(r, "menu")
    /\ UNCHANGED <<query_buffer, pending>>

\* lesson = input("Enter lesson number (1-10): ").strip();
\* try: run_lesson(int(lesson)) except ValueError: "Invalid lesson number!"
AskLesson ==
    /\ UNCHANGED seed
    /\ pc = "lesson"
    /\ \E line \in LessonInputs :
          LET lesson_num == int(strip(line)) IN
          IF lesson_num.ValueError
          THEN /\ last' = NoCall("run_lesson", line, "Invalid lesson number!")
               /\ pc' = "menu"
               /\ UNCHANGED <<conn, db, exitStatus, opens, closes>>
          ELSE IF InLessons(lesson_num.value)
          THEN LET query == LessonQuery(lesson_num.value)
                   r == execute_query(db, query)
               IN /\ last' = Call("run_lesson", line, query, r, <<>>)
                  /\ Continue(r, "menu")
          ELSE /\ last' = NoCall("run_lesson", line, "Invalid lesson number!")
               /\ pc' = "menu"
               /\ UNCHANGED <<conn, db, exitStatus, opens, closes>>
    /\ UNCHANGED <<query_buffer, pending>>

\* query = input("SQL> ").strip(); execute_query(query)
AskQuery ==
    /\ UNCHANGED seed
    /\ pc = "query"
    /\ \E line \in Lines :
          LET query == strip(line)
              r == execute_query(db, query)
          IN /\ last' = Call("custom_query", line, query, r, <<>>)
             /\ Continue(r, "menu")
    /\ UNCHANGED <<query_buffer, pending>>

(* ---------------------------------------------------------------------- *)
(* SQLLearner.interactive_mode                                             *)
(* ---------------------------------------------------------------------- *)

\* Mutant of EndsStatement: trailing whitespace is not trimmed.
EndsStatement_untrimmed(line) == endswith(line, <<";">>)

\* Mutant of IsExit: the comparison keeps the case.
IsExit_case_sensitive(line) == strip(line) = <<"e","x","i","t">>

\* line.strip().lower() == 'exit'
IsExit(line) == lower(strip(line)) = <<"e","x","i","t">>

\* Mutant of AppendLine: the line replaces the buffer.
AppendLine_replaces(buffer, line) == <<" ">> \o line

\* Mutant of AppendLine: the buffer is trimmed as it grows.
AppendLine_trimmed(buffer, line) == strip(buffer \o <<" ">> \o line)

\* Mutant of AppendLine: no separating space.
AppendLine_no_space(buffer, line) == buffer \o line

\* query_buffer += " " + line
AppendLine(buffer, line) == buffer \o <<" ">> \o line

\* line.strip().endswith(';')
EndsStatement(line) == endswith(strip(line), <<";">>)

\* The argument of execute_query: query_buffer.strip()
Statement(buffer) == strip(buffer)

\* Mutant of OnInterrupt: the buffer is kept.
OnInterrupt_keeps_buffer(buffer) == buffer

\* except KeyboardInterrupt: query_buffer = ""
OnInterrupt(buffer) == <<>>

\* The prompt of input(): "SQL> " if not query_buffer else "...> "
Prompt(buffer) == IF buffer = <<>> THEN "SQL> " ELSE "...> "

\* One pass of the loop in which input() returned a line.
InteractiveLine ==
    /\ UNCHANGED seed
    /\ pc = "interactive"
    /\ \E line \in Lines :
          IF IsExit(line)
          THEN \* break: back in main_menu
               /\ last' = NoCall("exit_interactive", line, "")
               /\ pc' = "menu"
               /\ query_buffer' = <<>>
               /\ pending' = <<>>
               /\ UNCHANGED <<conn, db, exitStatus, opens, closes>>
          ELSE IF EndsStatement(line)
          THEN LET query == Statement(AppendLine(query_buffer, line))
                   r == execute_query(db, query)
               IN /\ last' = Call("dispatch", line, query, r,
                                  Append(pending, line))
                  /\ Continue(r, "interactive")
                  /\ query_buffer' = <<>>
                  /\ pending' = <<>>
          ELSE /\ Len(pending) < MaxBufLines
               /\ last' = NoCall("append", line, "")
               /\ query_buffer' = AppendLine(query_buffer, line)
               /\ pending' = Append(pending, line)
               /\ UNCHANGED <<pc, conn, db, exitStatus, opens, closes>>

\* input() raised KeyboardInterrupt inside the loop's try.
InteractiveInterrupt ==
    /\ UNCHANGED seed
    /\ pc = "interactive"
    /\ last' = [NoCall("interrupt", <<>>, "Use 'exit' to quit interactive mode")
                   EXCEPT !.lines = pending]
    /\ query_buffer' = OnInterrupt(query_buffer)
    /\ pending' = <<>>
    /\ UNCHANGED <<pc, conn, db, exitStatus, opens, closes>>

(* ---------------------------------------------------------------------- *)
(* Exceptions of input() that nothing catches                              *)
(* ---------------------------------------------------------------------- *)

InputStates == {"menu", "table", "lesson", "query", "interactive"}

\* End of input at any input(): EOFError leaves interactive_mode (which
\* catches KeyboardInterrupt only) and main_menu.
InputEOF ==
    /\ UNCHANGED seed
    /\ pc \in InputStates
    /\ last' = [NoCall("eof", <<>>, "") EXCEPT !.raised = "EOFError"]
    /\ Leave("EOFError", db)
    /\ query_buffer' = <<>>
    /\ pending' = <<>>

\* An interrupt at an input() of main_menu: KeyboardInterrupt leaves main_menu.
MenuInterrupt ==
    /\ UNCHANGED seed
    /\ pc \in InputStates \ {"interactive"}
    /\ last' = [NoCall("interrupt", <<>>, "") EXCEPT !.raised = "KeyboardInterrupt"]
    /\ Leave("KeyboardInterrupt", db)
    /\ UNCHANGED <<query_buffer, pending>>

Next ==
    \/ ConnectOk
    \/ ConnectFail
    \/ MenuChoice
    \/ AskTable
    \/ AskLesson
    \/ AskQuery
    \/ InteractiveLine
    \/ InteractiveInterrupt
    \/ InputEOF
    \/ MenuInterrupt

Spec == Init /\ [][Next]_vars

(* ---------------------------------------------------------------------- *)
(* aw_db00.py, statement by statement                                      *)
(* ---------------------------------------------------------------------- *)

\* The position after table number i is dealt with: the count of the next
\* table, or con.commit() after the last.
AfterTable(i) ==
    IF i < Len(SeedTables) THEN [at |-> "count", t |-> i + 1, r |-> 1]
    ELSE [at |-> "commit", t |-> 1, r |-> 1]

At(s, where) == [s EXCEPT !.at = where.at, !.t = where.t, !.r = where.r]

\* The process of a run ends without con.commit(): what the connection
\* did not commit is lost.
Ended(s, how) ==
    [s EXCEPT !.at = "idle", !.t = 1, !.r = 1, !.work = s.file,
              !.inTx = FALSE, !.ended = how]

\* A run starts: con = sqlite3.connect(DB_FILE); cur = con.cursor()
SeedConnect ==
    /\ seed.at = "idle"
    /\ seed.raised = "none"
    /\ seed.runs < MaxRuns
    /\ seed' = [At(seed, [at |-> "create", t |-> 1, r |-> 1]) EXCEPT
                   !.work = seed.file, !.inTx = FALSE,
                   !.runs = seed.runs + 1, !.ended = "running",
                   !.inserted = 0, !.seededAtStart = Seeded(seed.file)]
    /\ UNCHANGED learnerVars

\* cur.execute("CREATE TABLE IF NOT EXISTS ...") -- no transaction is open,
\* so the table is durable at once.
SeedCreateTable ==
    /\ seed.at = "create"
    /\ LET t == SeedTables[seed.t]
           created == CreateIfNotExists(seed.work, t)
           next == IF seed.t < Len(SeedTables)
                   THEN [at |-> "create", t |-> seed.t + 1, r |-> 1]
                   ELSE [at |-> "count", t |-> 1, r |-> 1]
       IN seed' = [At(seed, next) EXCEPT !.work = created, !.file = created]
    /\ UNCHANGED learnerVars

\* cur.execute("SELECT COUNT(*) FROM t;"); if cur.fetchone()[0] == 0: ...
SeedCount ==
    /\ seed.at = "count"
    /\ LET t == SeedTables[seed.t]
           count == Cardinality(seed.work[t].rows)
       IN seed' = IF SeedWhen(count)
                  THEN At(seed, [at |-> "insert", t |-> seed.t, r |-> 1])
                  ELSE At(seed, AfterTable(seed.t))
    /\ UNCHANGED learnerVars

\* One row of cur.executemany("INSERT INTO t VALUES (...)", rows): a BEGIN
\* is issued before the first; a key that is taken raises IntegrityError,
\* which nothing catches.
SeedInsertRow ==
    /\ seed.at = "insert"
    /\ LET t == SeedTables[seed.t]
           row == SeedRows(t)[seed.r]
           next == IF seed.r < Len(SeedRows(t))
                   THEN [at |-> "insert", t |-> seed.t, r |-> seed.r + 1]
                   ELSE AfterTable(seed.t)
       IN seed' = IF KeyTaken(seed.work[t].rows, row)
                  THEN [Ended(seed, "raised") EXCEPT !.raised = "IntegrityError"]
                  ELSE [At(seed, next) EXCEPT
                           !.work[t].rows = @ \cup {row}, !.inTx = TRUE,
                           !.inserted = @ + 1]
    /\ UNCHANGED learnerVars

\* con.commit()
SeedCommit ==
    /\ seed.at = "commit"
    /\ seed' = [At(seed, [at |-> "demo", t |-> 1, r |-> 1]) EXCEPT
                   !.file = seed.work, !.inTx = FALSE]
    /\ UNCHANGED learnerVars

\* The demo query, con.close() and the last print: the run is complete.
SeedFinish ==
    /\ seed.at = "demo"
    /\ seed' = Ended(seed, "complete")
    /\ UNCHANGED learnerVars

\* The process is killed in the middle of a run.
SeedKill ==
    /\ seed.at \notin {"idle"}
    /\ seed' = Ended(seed, "killed")
    /\ UNCHANGED learnerVars

SeedNext ==
    \/ SeedConnect
    \/ SeedCreateTable
    \/ SeedCount
    \/ SeedInsertRow
    \/ SeedCommit
    \/ SeedFinish
    \/ SeedKill

\* The seeding script alone: the learning tool is not started.
SeedSpec == Init /\ [][SeedNext]_vars

(* ---------------------------------------------------------------------- *)
(* Claims                                                                  *)
(* ---------------------------------------------------------------------- *)

\* The last step called execute_query and the statement executed.
ExecutedOk == last.calls = 1 /\ last.raised = "none" /\ last.out.kind # "error"

\* The leading keyword of a statement, leading whitespace trimmed, case
\* ignored, is SELECT, WITH or PRAGMA.
HasReadKeyword(query) ==
    \E kw \in {<<"S","E","L","E","C","T">>, <<"W","I","T","H">>, <<"P","R","A","G","M","A">>} :
        startswith(upper(strip(query)), kw)

\* C1: a statement that executed is handled as a read statement (rows or
\* "no rows" shown, no commit, no affected-row count) exactly when its
\* leading keyword is SELECT, WITH or PRAGMA; show_schema of a table that
\* does not exist shows a read result with zero rows.
C1_ReadStatements ==
    /\ ExecutedOk =>
          (HasReadKeyword(last.query)
              <=> (last.out.kind \in {"rows", "norows"} /\ ~last.commit))
    /\ (last.op = "show_schema" /\ strip(last.input) = <<"n","o","n","e","x","i","s","t","e","n","t">>) =>
          last.out.kind = "norows"

\* C2: every call of execute_query returns normally, whatever the statement
\* text: no exception leaves it, the connection stays open and the session
\* goes on to the next input.
C2_FailureIsReported ==
    last.calls = 1 =>
        /\ last.raised = "none"
        /\ conn = "open"
        /\ pc \in InputStates

\* C3: whenever the session waits for input, the connection has no
\* transaction open and nothing that is not committed.
C3_AutoCommit ==
    pc \in InputStates => (~db.inTx /\ db.rows = db.committed)

\* C4: when connect succeeded the connection is opened once and closed
\* exactly once before the process ends, however main_menu ended, and
\* execute_query runs only while the connection is open.
C4_ConnectionLifecycle ==
    /\ opens <= 1
    /\ closes <= opens
    /\ (pc = "exited" /\ opens = 1) => (closes = 1 /\ conn = "closed")
    /\ (pc \in InputStates) => (opens = 1 /\ closes = 0 /\ conn = "open")
    /\ last.calls = 1 => last.connWas = "open"

\* C4 witness: the process ended by an exception that left main_menu, after
\* a connection was opened.
C4_Witness ==
    pc = "exited" /\ opens = 1 /\ last.raised # "none" /\ closes = 1

\* The lesson an answer to the lesson prompt names, 0 when it names none.
LessonNamed(input) ==
    CASE input = <<"1">> -> 1 [] input = <<"2">> -> 2 [] input = <<"3">> -> 3
      [] input = <<"4">> -> 4 [] input = <<"5">> -> 5 [] input = <<"6">> -> 6
      [] input = <<"7">> -> 7 [] input = <<"8">> -> 8 [] input = <<"9">> -> 9
      [] input = <<"1","0">> -> 10 [] input = <<"+","3">> -> 3
      [] OTHER -> 0

\* C5: an answer naming a lesson 1..10 runs that lesson, with one call of
\* execute_query on the lesson's statement; any other answer (0, 11, -1,
\* not a number) makes no call, reports "Invalid lesson number!" and goes
\* back to the menu.
C5_LessonLookup ==
    last.op = "run_lesson" =>
        IF LessonNamed(last.input) \in 1..10
        THEN /\ last.calls = 1
             /\ last.query = LessonQuery(LessonNamed(last.input))
        ELSE /\ last.calls = 0
             /\ last.msg = "Invalid lesson number!"
             /\ pc = "menu"
             /\ exitStatus = -1

\* C5 witness: the answer 11 was refused.
C5_Witness ==
    last.op = "run_lesson" /\ last.input = <<"1","1">> /\ last.calls = 0 /\ pc = "menu"

\* C6: a statement entered on one line and the same statement split over
\* two lines are each passed to execute_query once, as the same text.
C6_Accumulation ==
    /\ (last.op = "dispatch"
          /\ last.lines \in {<<<<"S","E","L","E","C","T"," ","1",";">>>>, <<<<"S","E","L","E","C","T">>, <<"1",";">>>>}) =>
          (last.calls = 1 /\ last.query = <<"S","E","L","E","C","T"," ","1",";">>)
    /\ (last.pcWas = "interactive" /\ last.input = <<"S","E","L","E","C","T">>) => last.calls = 0

\* C6 witness: the statement split over two lines was dispatched.
C6_Witness ==
    last.op = "dispatch" /\ last.lines = <<<<"S","E","L","E","C","T">>, <<"1",";">>>> /\ last.calls = 1

\* C7: 'exit' (any case, trimmed) read with an empty buffer ends
\* interactive mode: no call of execute_query, and the next input is the
\* menu's.
C7_ExitFromAwaiting ==
    (last.pcWas = "interactive" /\ last.bufWas = <<>>
        /\ last.input \in {<<"e","x","i","t">>, <<" "," ","E","x","i","t"," ">>}) =>
        (last.calls = 0 /\ pc = "menu")

\* C7 witness: '  Exit ' was read with an empty buffer.
C7_Witness ==
    /\ last.pcWas = "interactive" /\ last.bufWas = <<>>
    /\ last.input = <<" "," ","E","x","i","t"," ">> /\ pc = "menu"

\* The lines joined as interactive_mode joins them, trimmed.
RECURSIVE Joined(_)
Joined(lines) ==
    IF lines = <<>> THEN <<>>
    ELSE Joined(SubSeq(lines, 1, Len(lines) - 1)) \o <<" ">> \o lines[Len(lines)]

\* C8: an interrupt in interactive mode empties the buffer without a call
\* of execute_query and the loop goes on reading, at the prompt of a fresh
\* statement; a statement dispatched later is made of the lines read since.
C8_InterruptDiscards ==
    /\ (last.op = "interrupt" /\ last.pcWas = "interactive") =>
          /\ last.calls = 0
          /\ query_buffer = <<>>
          /\ Prompt(query_buffer) = "SQL> "
          /\ pc = "interactive"
          /\ exitStatus = -1
    /\ last.op = "dispatch" => last.query = strip(Joined(last.lines))

\* C8 witness: an interrupt arrived while a statement was being accumulated.
C8_Witness ==
    /\ last.op = "interrupt" /\ last.pcWas = "interactive"
    /\ last.bufWas # <<>> /\ pc = "interactive"

\* C9: the exit status is 1 when the connection could not be opened (and
\* then main_menu was not entered and nothing was executed), 0 when the
\* session ended by choice 7.
C9_ExitStatus ==
    /\ (pc = "exited" /\ opens = 0) =>
          (exitStatus = 1 /\ last.op = "connect" /\ last.calls = 0)
    /\ (last.pcWas = "menu" /\ last.input \in {<<"7">>, <<" ","7"," ">>}) =>
          (pc = "exited" /\ exitStatus = 0)

\* C9 witness: the session ended by choice 7.
C9_Witness ==
    last.pcWas = "menu" /\ last.input = <<"7">> /\ pc = "exited" /\ exitStatus = 0

\* The rows of inventory that differ between two states of the database.
RowsChanged(before, after) == (before \ after) \cup (after \ before)

\* C10: the count a write statement reports is the number of rows the
\* statement changed.
C10_AffectedCount ==
    (last.calls = 1 /\ last.out.kind = "affected") =>
        last.out.n = Cardinality(RowsChanged(last.dbWas.rows, db.rows))


\* The last step of interactive_mode read a line (input() returned).
ReadLine == last.pcWas = "interactive" /\ last.op \notin {"interrupt", "eof"}

\* The last character of a line that is not whitespace is ';'.
SemicolonLast(line) ==
    \E i \in 1..Len(line) :
        /\ line[i] = ";"
        /\ \A j \in (i + 1)..Len(line) : IsSpace(line[j])

\* C11: a line read by interactive_mode is followed by a call of
\* execute_query exactly when it ends with ';' (trailing whitespace
\* trimmed), whatever the buffer holds; the text passed is the buffer with
\* the line appended, trimmed; the loop goes on with an empty buffer; the
\* text passed is made of the lines read since the buffer was last emptied.
C11_DispatchRule ==
    ReadLine =>
        /\ last.calls = 1 <=> SemicolonLast(last.input)
        /\ last.calls = 1 =>
              /\ last.query = strip(last.bufWas \o <<" ">> \o last.input)
              /\ last.query = strip(Joined(last.lines))
              /\ pc = "interactive" => (query_buffer = <<>> /\ pending = <<>>)

\* C11 witness: a buffer holding nothing but an empty line and ';' was
\* dispatched as the statement ';'.
C11_Witness ==
    /\ ReadLine /\ last.calls = 1 /\ pc = "interactive"
    /\ last.query = <<";">> /\ last.lines = <<<<>>, <<";">>>>

\* C12 as claimed: while a statement is being accumulated, every line read
\* that does not end with ';' is appended with a separating space and the
\* loop stays in interactive mode.
C12_ExitOnlyWhenAwaiting ==
    (ReadLine /\ last.bufWas # <<>> /\ ~SemicolonLast(last.input)) =>
        /\ pc = "interactive"
        /\ last.calls = 0
        /\ query_buffer = last.bufWas \o <<" ">> \o last.input

\* The line is the exit command: 'exit' in any case, whitespace trimmed.
ExitCommand(line) == line \in {<<"e","x","i","t">>, <<" "," ","E","x","i","t"," ">>}

\* C12 as amended: while a statement is being accumulated, a line that is
\* the exit command ends interactive mode without a call and drops the
\* buffer; every other line that does not end with ';' is appended with a
\* separating space and the loop stays in interactive mode.
C12_ExitAlsoWhenAccumulating ==
    (ReadLine /\ last.bufWas # <<>> /\ ~SemicolonLast(last.input)) =>
        /\ last.calls = 0
        /\ IF ExitCommand(last.input)
           THEN pc = "menu" /\ query_buffer = <<>>
           ELSE /\ pc = "interactive"
                /\ query_buffer = last.bufWas \o <<" ">> \o last.input

\* C12 witness: 'exit' was read while a statement was being accumulated.
C12_Witness ==
    /\ ReadLine /\ last.bufWas = <<" ","S","E","L","E","C","T">> /\ last.input = <<"e","x","i","t">>
    /\ pc = "menu" /\ last.calls = 0

\* The last step read an answer at a prompt of main_menu.
ReadAnswer ==
    last.pcWas \in {"menu", "table", "lesson", "query"}
        /\ last.op \notin {"interrupt", "eof"}

\* The choices of the menu.
MenuChoices == {<<"1">>, <<"2">>, <<"3">>, <<"4">>, <<"5">>, <<"6">>, <<"7">>}

\* C13: main_menu returns only after the choice '7'; after every other
\* answer the session goes on (to the prompt of the action chosen and then
\* back to the menu); a choice outside '1'..'7' is reported as invalid,
\* calls nothing and leads back to the menu.
C13_MenuLoop ==
    /\ (pc = "exited" /\ opens = 1 /\ last.raised = "none") =>
          (last.pcWas = "menu" /\ strip(last.input) = <<"7">>)
    /\ (ReadAnswer /\ last.pcWas = "menu"
          /\ strip(last.input) \notin MenuChoices) =>
          /\ last.calls = 0
          /\ last.msg = "Invalid choice. Please enter 1-7."
          /\ pc = "menu"
    /\ (ReadAnswer /\ last.pcWas = "menu"
          /\ strip(last.input) \in {<<"1">>, <<"3">>}) => pc = "menu"
    /\ (ReadAnswer /\ last.pcWas \in {"table", "lesson", "query"}) =>
          pc = "menu"
    /\ (ReadLine /\ ExitCommand(last.input)) => pc = "menu"
    /\ (ReadLine /\ ~ExitCommand(last.input)) => pc = "interactive"

\* C14: at every read of a line in interactive mode the prompt is 'SQL> '
\* exactly when no line was appended since the buffer was last emptied and
\* '...> ' exactly when at least one was.
C14_PromptProtocol ==
    pc = "interactive" =>
        /\ Prompt(query_buffer) = "SQL> " <=> pending = <<>>
        /\ Prompt(query_buffer) = "...> " <=> pending # <<>>

\* C14 witness: the continuation prompt after an empty line was appended.
C14_Witness ==
    pc = "interactive" /\ pending = <<<<>>>> /\ Prompt(query_buffer) = "...> "

\* C15: from an empty database file, every complete run of aw_db00.py
\* leaves Territory, Customer and SalesOrderHeader with exactly the 5, 4 and
\* 4 seed rows; a run that starts on the seeded file inserts nothing; no run
\* raises a primary-key error.
C15_SeedIdempotent ==
    /\ seed.raised = "none"
    /\ seed.ended = "complete" =>
          /\ Seeded(seed.file)
          /\ Cardinality(seed.file["Territory"].rows) = 5
          /\ Cardinality(seed.file["Customer"].rows) = 4
          /\ Cardinality(seed.file["SalesOrderHeader"].rows) = 4
          /\ seed.seededAtStart => seed.inserted = 0

\* C15 witness: a complete run after a complete run, with nothing inserted.
C15_Witness ==
    /\ seed.runs >= 2 /\ seed.ended = "complete" /\ seed.seededAtStart
    /\ seed.inserted = 0 /\ Seeded(seed.file)

====
